---- MODULE Spec2Model ----
(***************************************************************************)
(* The lead-manager page (the Home component) as a state machine.          *)
(*                                                                         *)
(* State: the five useState cells of Home, the intervalRef, the field      *)
(* errors of the form, the network requests in flight (each with the       *)
(* `leads` value its handler closed over when it was issued) and the live  *)
(* interval timers.  One action per event handler, promise continuation    *)
(* or timer callback.  Effects (useEffect) run with the render that        *)
(* follows the state change, before any other event is handled, so they    *)
(* are part of the action that changes the state they depend on.           *)
(*                                                                         *)
(* Time is counted in whole seconds.                                       *)
(***************************************************************************)
EXTENDS Integers, Sequences, FiniteSets, TLC

VARIABLES
    leads,        \* useState<ILead[]>([])
    fetching,     \* useState<boolean>(true)
    open,         \* useState<boolean>(false)
    loading,      \* useState<boolean>(false)
    error,        \* useState<string | null>(null)
    intervalRef,  \* useRef<Timeout | null>(null): a timer handle, 0 for null
    formErrors,   \* formState.errors of useForm
    fetchPending, \* the GET /leads of the mount effect has not resolved yet
    posts,        \* POST /leads requests in flight
    dels,         \* DELETE /leads/{id} requests in flight
    timers,       \* live setInterval timers: [id, left], left = seconds to fire
    nReq,         \* number of POST and DELETE requests issued so far
    expected,     \* history: last fetched list, later creates appended, deletes removed
    deleted,      \* history: ids whose delete succeeded
    sinceFail,    \* history: seconds since the last failed delete, NoFail if none / superseded
    last          \* history: the step just taken, [op, val, uncaught]; uncaught: the
                  \* step ended in a promise rejection that nothing handles

vars == <<leads, fetching, open, loading, error, intervalRef, formErrors,
          fetchPending, posts, dels, timers, nReq,
          expected, deleted, sinceFail, last>>

-----------------------------------------------------------------------------
(* Bounds *)

\* POST and DELETE requests issued in one behaviour
MaxRequests == 2

-----------------------------------------------------------------------------
(* Values *)

Null == "null"
NoMsg == "none"
NoFail == 0 - 1

\* setInterval(..., 4000), in seconds
TimerDelay == 4

\* enum ELeadStatus
ELeadStatus == {"New", "Engaged", "Proposal Sent", "Closed-Won", "Closed-Lost"}

Name20 == "abcdefghijklmnopqrst"
Name21 == "abcdefghijklmnopqrstu"

\* Texts typed into the name field.
Names == {"", "Ada", Name20, Name21}

\* Texts typed into the email field, as sequences of characters.
Emails == { <<>>,
            <<"a", "@", "x", ".", "c">>,
            <<"a", "x", ".", "c">>,
            <<"a", "@", "x">>,
            <<"a", "@", "x", ".">>,
            <<"@", "x", ".", "c">> }

\* Values of the status field: the options of the select, and one that is not.
Statuses == ELeadStatus \cup {"Bogus", ""}

\* type TLeadFormInputs
FormInputs == [name : Names, email : Emails, status : Statuses]

\* What the user types into the form of the page.
TypedInputs ==
    [name : {"", "Ada"},
     email : {<<"a", "@", "x", ".", "c">>, <<"a", "x", ".", "c">>},
     status : {"New"}]

-----------------------------------------------------------------------------
(* The validation schema *)

\* The segments of s between dots are all non-empty.
NoEmptySegment(s) ==
    /\ Len(s) > 0
    /\ s[1] # "."
    /\ s[Len(s)] # "."
    /\ \A i \in 1..(Len(s) - 1) : ~(s[i] = "." /\ s[i + 1] = ".")

\* Joi.string().email({ tlds: { allow: false } }): one "@", a local part and
\* a domain of at least two segments, no segment empty.
IsEmail(e) ==
    LET ats == {i \in 1..Len(e) : e[i] = "@"} IN
    /\ Cardinality(ats) = 1
    /\ LET at == CHOOSE i \in ats : TRUE
           local == SubSeq(e, 1, at - 1)
           domain == SubSeq(e, at + 1, Len(e))
       IN /\ NoEmptySegment(local)
          /\ NoEmptySegment(domain)
          /\ \E i \in 1..Len(domain) : domain[i] = "."

\* Mutant: the limit is off by one.
NameErrorOffByOne(name) ==
    IF name = "" THEN "Name is required"
    ELSE IF Len(name) >= 20 THEN "Name cannot exceed 20 characters"
    ELSE NoMsg

NameError(name) ==
    IF name = "" THEN "Name is required"
    ELSE IF Len(name) > 20 THEN "Name cannot exceed 20 characters"
    ELSE NoMsg

EmailError(email) ==
    IF email = <<>> THEN "Email is required"
    ELSE IF ~IsEmail(email) THEN "Invalid email address"
    ELSE NoMsg

StatusError(status) ==
    IF status \notin ELeadStatus THEN "Invalid status" ELSE NoMsg

\* schema, run by joiResolver (all fields are validated, abortEarly off)
schema(data) ==
    [name |-> NameError(data.name),
     email |-> EmailError(data.email),
     status |-> StatusError(data.status)]

NoErrors == [name |-> NoMsg, email |-> NoMsg, status |-> NoMsg]

IsValid(data) == schema(data) = NoErrors

-----------------------------------------------------------------------------
(* The server, as far as the page sees it *)

LeadA == [_id |-> "a", name |-> "Ada", email |-> <<"a", "@", "x", ".", "c">>, status |-> "New"]
LeadB == [_id |-> "b", name |-> "Bob", email |-> <<"b", "@", "x", ".", "c">>, status |-> "Engaged"]
\* a record that came without an _id
LeadNoId == [_id |-> "", name |-> "Eve", email |-> <<"e", "@", "x", ".", "c">>, status |-> "New"]

\* Bodies GET /leads answers with.
FetchBodies == { <<>>, <<LeadA, LeadB>>, <<LeadA, LeadB, LeadNoId>> }

\* The message of a rejected fetch or an unparsable body.
TransportMessage == "Failed to fetch"

\* The error field of a failed POST / DELETE answer.  The API's error
\* strings are non-empty, so `if (res.error)` is "the answer has an error field".
PostErrors == {"Email already exists"}
DeleteErrors == {"Lead not found"}

\* The record POST /leads answers with: the input and a fresh server id.
Created(rid, data) ==
    [_id |-> ToString(rid), name |-> data.name, email |-> data.email, status |-> data.status]

-----------------------------------------------------------------------------
(* Helpers *)

\* leads.filter((lead) => lead._id !== id)
FilterOut(ls, id) == SelectSeq(ls, LAMBDA lead : lead._id # id)

Ids(ls) == {ls[i]._id : i \in 1..Len(ls)}

\* clearInterval(handle): the timer with that handle, if live, is gone
clearInterval(ts, handle) == {t \in ts : t.id # handle}

Event(op, val) == [op |-> op, val |-> val, uncaught |-> FALSE]

Rejection(op, val) == [op |-> op, val |-> val, uncaught |-> TRUE]

-----------------------------------------------------------------------------
Init ==
    /\ leads = <<>>
    /\ fetching = TRUE
    /\ open = FALSE
    /\ loading = FALSE
    /\ error = Null
    /\ intervalRef = 0
    /\ formErrors = NoErrors
    /\ fetchPending = TRUE
    /\ posts = {}
    /\ dels = {}
    /\ timers = {}
    /\ nReq = 0
    /\ expected = <<>>
    /\ deleted = {}
    /\ sinceFail = NoFail
    /\ last = Event("mount", Null)

-----------------------------------------------------------------------------
(* fetchLeads *)

\* try: res.json() gave `data`; setLeads(data); finally setFetching(false)
FetchResolve(data) ==
    /\ fetchPending
    /\ fetchPending' = FALSE
    /\ leads' = data
    /\ fetching' = FALSE
    /\ expected' = data
    /\ last' = Event("FetchResolve", data)
    /\ UNCHANGED <<open, loading, error, intervalRef, formErrors, posts, dels,
                   timers, nReq, deleted, sinceFail>>

\* Mutant: the catch also empties the list.
FetchRejectClearsLeads ==
    /\ fetchPending
    /\ fetchPending' = FALSE
    /\ error' = TransportMessage
    /\ leads' = <<>>
    /\ fetching' = FALSE
    /\ sinceFail' = NoFail
    /\ last' = Event("FetchReject", TransportMessage)
    /\ UNCHANGED <<open, loading, intervalRef, formErrors, posts, dels,
                   timers, nReq, expected, deleted>>

\* catch: setError(error.message); finally setFetching(false)
FetchReject ==
    /\ fetchPending
    /\ fetchPending' = FALSE
    /\ error' = TransportMessage
    /\ fetching' = FALSE
    /\ sinceFail' = NoFail
    /\ last' = Event("FetchReject", TransportMessage)
    /\ UNCHANGED <<leads, open, loading, intervalRef, formErrors, posts, dels,
                   timers, nReq, expected, deleted>>

-----------------------------------------------------------------------------
(* The modal *)

\* Mutant: the effect is missing.
ErrorAfterOpenChangeNoReset(newOpen, err) == err

\* The effect on [open]: if (!open) setError(null)
ErrorAfterOpenChange(newOpen, err) ==
    IF ~newOpen THEN Null ELSE err

\* "Add New": onClick={() => setOpen(true)}, disabled={loading}
AddNew ==
    /\ ~loading
    /\ open' = TRUE
    /\ error' = (IF open' # open THEN ErrorAfterOpenChange(open', error) ELSE error)
    /\ last' = Event("AddNew", Null)
    /\ UNCHANGED <<leads, fetching, loading, intervalRef, formErrors, fetchPending,
                   posts, dels, timers, nReq, expected, deleted, sinceFail>>

\* The close button of the modal: setOpen(false).  (The backdrop, whose click
\* does the same through onClose, is ModalClick below.)
CloseModal ==
    /\ open
    /\ open' = FALSE
    /\ error' = (IF open' # open THEN ErrorAfterOpenChange(open', error) ELSE error)
    /\ last' = Event("CloseModal", error)
    /\ UNCHANGED <<leads, fetching, loading, intervalRef, formErrors, fetchPending,
                   posts, dels, timers, nReq, expected, deleted, sinceFail>>

-----------------------------------------------------------------------------
(* The Modal component *)

\* Where a click can land: the backdrop div, the content div, or an element
\* of the children that has no click handler of its own.
ModalTargets == {"backdrop", "content", "children"}

\* The elements the click bubbles through, innermost first.
BubblePath(target) ==
    CASE target = "backdrop" -> <<"backdrop">>
      [] target = "content" -> <<"content", "backdrop">>
      [] target = "children" -> <<"children", "content", "backdrop">>

\* Mutant: the content div has no onClick.
ModalHandlerNoStop(node) ==
    CASE node = "backdrop" -> "onClose"
      [] OTHER -> "none"

\* The onClick of each element: onClick={onClose} on the backdrop,
\* onClick={(e) => e.stopPropagation()} on the content div.
ModalHandler(node) ==
    CASE node = "backdrop" -> "onClose"
      [] node = "content" -> "stopPropagation"
      [] OTHER -> "none"

\* The number of times onClose runs while the click bubbles along path from
\* its i-th element: each element's handler runs, and stopPropagation ends it.
RECURSIVE OnCloseCalls(_, _)
OnCloseCalls(path, i) ==
    IF i > Len(path) THEN 0
    ELSE IF ModalHandler(path[i]) = "stopPropagation" THEN 0
    ELSE (IF ModalHandler(path[i]) = "onClose" THEN 1 ELSE 0) + OnCloseCalls(path, i + 1)

\* A click in the Modal of the page, whose onClose is () => setOpen(false).
\* The handlers are attached whether the modal is open or not: a closed modal
\* is only hidden (class "invisible"), a click dispatched to it runs them.
ModalClick(target) ==
    LET calls == OnCloseCalls(BubblePath(target), 1) IN
    /\ open' = (IF calls > 0 THEN FALSE ELSE open)
    /\ error' = (IF open' # open THEN ErrorAfterOpenChange(open', error) ELSE error)
    /\ last' = Event("ModalClick", [target |-> target, open |-> open, calls |-> calls])
    /\ UNCHANGED <<leads, fetching, loading, intervalRef, formErrors, fetchPending,
                   posts, dels, timers, nReq, expected, deleted, sinceFail>>

-----------------------------------------------------------------------------
(* The form *)

\* Mutant: useForm without the resolver, so onSubmit gets whatever was typed.
handleSubmitNoResolver(data) ==
    /\ open
    /\ ~loading
    /\ formErrors' = NoErrors
    /\ nReq < MaxRequests
    /\ nReq' = nReq + 1
    /\ loading' = TRUE
    /\ posts' = posts \cup {[rid |-> nReq + 1, data |-> data, leads |-> leads]}
    /\ last' = Event("SubmitValid", data)
    /\ UNCHANGED <<leads, fetching, open, error, intervalRef, fetchPending, dels,
                   timers, expected, deleted, sinceFail>>

\* handleSubmit(onSubmit) up to the first await of onSubmit: the resolver runs
\* the schema; with errors it records them and onSubmit is not called, else
\* onSubmit(data): setLoading(true); fetch(POST), which closes over `leads`.
\* The form is in the modal and the submit button is disabled={loading}.
handleSubmit(data) ==
    /\ open
    /\ ~loading
    /\ formErrors' = schema(data)
    /\ IF schema(data) # NoErrors
       THEN /\ last' = Event("SubmitInvalid", data)
            /\ UNCHANGED <<loading, posts, nReq>>
       ELSE /\ nReq < MaxRequests
            /\ nReq' = nReq + 1
            /\ loading' = TRUE
            /\ posts' = posts \cup {[rid |-> nReq + 1, data |-> data, leads |-> leads]}
            /\ last' = Event("SubmitValid", data)
    /\ UNCHANGED <<leads, fetching, open, error, intervalRef, fetchPending, dels,
                   timers, expected, deleted, sinceFail>>

\* Mutant: the `return` of the error branch is missing, so the success path
\* runs too and the answer is appended as if it were a lead.
PostErrorFallsThrough(r, err) ==
    /\ r \in posts
    /\ posts' = posts \ {r}
    /\ open' = FALSE
    /\ formErrors' = NoErrors
    /\ leads' = Append(r.leads, [_id |-> "", name |-> "", email |-> <<>>, status |-> ""])
    /\ error' = Null
    /\ loading' = FALSE
    /\ sinceFail' = NoFail
    /\ last' = Event("PostError", err)
    /\ UNCHANGED <<fetching, intervalRef, fetchPending, dels, timers, nReq,
                   expected, deleted>>

\* onSubmit, .then with res.error set: setError(res.error); setLoading(false);
\* then .finally: setLoading(false)
PostError(r, err) ==
    /\ r \in posts
    /\ posts' = posts \ {r}
    /\ error' = err
    /\ loading' = FALSE
    /\ sinceFail' = NoFail
    /\ last' = Event("PostError", err)
    /\ UNCHANGED <<leads, fetching, open, intervalRef, formErrors, fetchPending, dels,
                   timers, nReq, expected, deleted>>

\* onSubmit, .then without res.error: setOpen(false); reset();
\* setLeads([...leads, res]) with the `leads` the handler closed over;
\* setError(null); then .finally: setLoading(false)
PostSuccess(r) ==
    /\ r \in posts
    /\ posts' = posts \ {r}
    /\ open' = FALSE
    /\ formErrors' = NoErrors
    /\ leads' = Append(r.leads, Created(r.rid, r.data))
    /\ error' = Null
    /\ loading' = FALSE
    /\ expected' = Append(expected, Created(r.rid, r.data))
    /\ last' = Event("PostSuccess", Created(r.rid, r.data))
    /\ UNCHANGED <<fetching, intervalRef, fetchPending, dels, timers, nReq, deleted, sinceFail>>

\* Mutant: no .finally, so a rejected request leaves the loading flag set.
PostRejectNoFinally(r) ==
    /\ r \in posts
    /\ posts' = posts \ {r}
    /\ sinceFail' = NoFail
    /\ last' = Rejection("PostReject", TransportMessage)
    /\ UNCHANGED <<leads, fetching, open, loading, error, intervalRef, formErrors,
                   fetchPending, dels, timers, nReq, expected, deleted>>

\* onSubmit when fetch or res.json() rejects: .then is skipped, .finally runs
\* setLoading(false), and the rejection leaves onSubmit and handleSubmit.
PostReject(r) ==
    /\ r \in posts
    /\ posts' = posts \ {r}
    /\ loading' = FALSE
    /\ sinceFail' = NoFail
    /\ last' = Rejection("PostReject", TransportMessage)
    /\ UNCHANGED <<leads, fetching, open, error, intervalRef, formErrors,
                   fetchPending, dels, timers, nReq, expected, deleted>>

-----------------------------------------------------------------------------
(* removeLead *)

\* The delete button of a row (rows are rendered when not fetching; nothing
\* disables the button, and it stays in the tab order behind the modal), up to
\* the await: clearInterval(intervalRef.current); if (!id) return; fetch(DELETE),
\* which closes over `leads`.
removeLead(id) ==
    /\ ~fetching
    /\ id \in Ids(leads)
    /\ timers' = (IF intervalRef # 0 THEN clearInterval(timers, intervalRef) ELSE timers)
    /\ IF id = ""
       THEN /\ last' = Event("removeLeadNoId", id)
            /\ UNCHANGED <<dels, nReq>>
       ELSE /\ nReq < MaxRequests
            /\ nReq' = nReq + 1
            /\ dels' = dels \cup {[rid |-> nReq + 1, id |-> id, leads |-> leads]}
            /\ last' = Event("removeLead", id)
    /\ UNCHANGED <<leads, fetching, open, loading, error, intervalRef, formErrors,
                   fetchPending, posts, expected, deleted, sinceFail>>

\* .then with res.error set: setError(res.error); setLoading(false);
\* intervalRef.current = setInterval(..., 4000)
DeleteError(r, err) ==
    /\ r \in dels
    /\ dels' = dels \ {r}
    /\ error' = err
    /\ loading' = FALSE
    /\ intervalRef' = r.rid
    /\ timers' = timers \cup {[id |-> r.rid, left |-> TimerDelay]}
    /\ sinceFail' = 0
    /\ last' = Event("DeleteError", err)
    /\ UNCHANGED <<leads, fetching, open, formErrors, fetchPending, posts, nReq, expected, deleted>>

\* .then without res.error: setLeads(leads.filter(...)) with the `leads` the
\* handler closed over
DeleteSuccess(r) ==
    /\ r \in dels
    /\ dels' = dels \ {r}
    /\ leads' = FilterOut(r.leads, r.id)
    /\ expected' = FilterOut(expected, r.id)
    /\ deleted' = deleted \cup {r.id}
    /\ last' = Event("DeleteSuccess", r.id)
    /\ UNCHANGED <<fetching, open, loading, error, intervalRef, formErrors,
                   fetchPending, posts, timers, nReq, sinceFail>>

\* fetch or res.json() rejects: nothing catches it
DeleteReject(r) ==
    /\ r \in dels
    /\ dels' = dels \ {r}
    /\ sinceFail' = NoFail
    /\ last' = Rejection("DeleteReject", TransportMessage)
    /\ UNCHANGED <<leads, fetching, open, loading, error, intervalRef, formErrors,
                   fetchPending, posts, timers, nReq, expected, deleted>>

-----------------------------------------------------------------------------
(* Timers *)

\* The interval callback: setError(null); clearInterval(intervalRef.current).
\* It reads the ref when it runs.  An interval that was not cleared runs again
\* after another delay.  Timers that fall due within the same second fire in
\* either order.
TimerFire(t) ==
    /\ t \in timers
    /\ t.left = 0
    /\ error' = Null
    /\ timers' = clearInterval((timers \ {t}) \cup {[t EXCEPT !.left = TimerDelay]},
                               intervalRef)
    /\ last' = Event("TimerFire", t.id)
    /\ UNCHANGED <<leads, fetching, open, loading, intervalRef, formErrors,
                   fetchPending, posts, dels, nReq, expected, deleted,
                   sinceFail>>

\* One second passes; a timer that is due fires first.  Time is followed
\* only while a timer is live or the age of a failed delete is counted.
Tick ==
    /\ timers # {} \/ sinceFail \in 0..TimerDelay
    /\ \A t \in timers : t.left > 0
    /\ timers' = {[t EXCEPT !.left = t.left - 1] : t \in timers}
    /\ sinceFail' = (IF sinceFail = NoFail \/ sinceFail > TimerDelay
                     THEN sinceFail ELSE sinceFail + 1)
    /\ last' = Event("Tick", Null)
    /\ UNCHANGED <<leads, fetching, open, loading, error, intervalRef, formErrors,
                   fetchPending, posts, dels, nReq, expected, deleted>>

-----------------------------------------------------------------------------
Next ==
    \/ \E data \in FetchBodies : FetchResolve(data)
    \/ FetchReject
    \/ AddNew
    \/ CloseModal
    \/ \E target \in ModalTargets : ModalClick(target)
    \/ \E data \in TypedInputs : handleSubmit(data)
    \/ \E r \in posts : \E err \in PostErrors : PostError(r, err)
    \/ \E r \in posts : PostSuccess(r)
    \/ \E r \in posts : PostReject(r)
    \/ \E id \in Ids(leads) : removeLead(id)
    \/ \E r \in dels : \E err \in DeleteErrors : DeleteError(r, err)
    \/ \E r \in dels : DeleteSuccess(r)
    \/ \E r \in dels : DeleteReject(r)
    \/ \E t \in timers : TimerFire(t)
    \/ Tick

Spec == Init /\ [][Next]_vars

-----------------------------------------------------------------------------
(* The schema on its own: every form input, then the resolver's result *)

\* Some form input has been typed; nothing else has happened on the page.
SchemaInit ==
    /\ leads = <<>>
    /\ fetching = TRUE
    /\ open = FALSE
    /\ loading = FALSE
    /\ error = Null
    /\ intervalRef = 0
    /\ formErrors = NoErrors
    /\ fetchPending = TRUE
    /\ posts = {}
    /\ dels = {}
    /\ timers = {}
    /\ nReq = 0
    /\ expected = <<>>
    /\ deleted = {}
    /\ sinceFail = NoFail
    /\ \E data \in FormInputs : last = Event("typed", data)

\* joiResolver(schema) on the typed input: its errors become formState.errors
Resolve ==
    /\ last.op = "typed"
    /\ formErrors' = schema(last.val)
    /\ last' = Event("Resolve", last.val)
    /\ UNCHANGED <<leads, fetching, open, loading, error, intervalRef, fetchPending,
                   posts, dels, timers, nReq, expected, deleted, sinceFail>>

SchemaNext == Resolve

SchemaSpec == SchemaInit /\ [][SchemaNext]_vars

-----------------------------------------------------------------------------
(* The claims *)

\* C1: in every reachable state the local lead sequence is the last fetched
\* sequence with the records of later successful creates appended in response
\* order and the ids of later successful deletes removed.
C1_LeadsReflectHistory == leads = expected

\* C2: an id whose delete resolved successfully is in the local lead sequence
\* neither in the resulting state nor in any later one.
C2_DeletedStaysGone == \A i \in 1..Len(leads) : leads[i]._id \notin deleted

\* C3: a create answer without an error field leaves the modal closed, the
\* error cleared and the lead sequence as it was just before the answer with
\* the returned record appended.
C3_CreateAppends ==
    [][last'.op = "PostSuccess" =>
         /\ open' = FALSE
         /\ error' = Null
         /\ leads' = Append(leads, last'.val)]_vars

\* C4, as claimed: a create answer with an error field leaves the modal open,
\* the error equal to the answer's error string and the lead sequence as it was.
C4_CreateErrorModalOpen ==
    [][last'.op = "PostError" =>
         /\ open' = TRUE
         /\ error' = last'.val
         /\ leads' = leads]_vars

\* C4, amended: a create answer with an error field leaves the modal-open flag
\* as it was (the answer does not close the modal; the user may have closed it
\* meanwhile), the error equal to the answer's error string and the lead
\* sequence as it was.
C4_CreateErrorKeepsModal ==
    [][last'.op = "PostError" =>
         /\ open' = open
         /\ error' = last'.val
         /\ leads' = leads]_vars

\* C4 witness: the error answer of a create arrived after the user had closed
\* the modal; the message is the page's error.
C4_Witness == last.op = "PostError" /\ ~open /\ error = last.val /\ leads # <<>>

\* C5: after a delete answer with an error field the error is set, and when
\* no operation has failed since, it is cleared once 4 seconds have passed
\* since that answer (stated here for the states in which every later request
\* has been answered, none with a failure, and every row has an id).
C5_DeleteErrorClears ==
    /\ last.op = "DeleteError" => error = last.val
    /\ (sinceFail > TimerDelay /\ posts = {} /\ dels = {} /\ "" \notin Ids(leads)) =>
          error = Null

\* C6: at most one auto-clear timer is live.
C6_AtMostOneTimer == Cardinality(timers) <= 1

\* C7: no operation ends in an unhandled rejection, and a transport failure
\* of fetch, create or delete becomes the displayed error message.
C7_NoUncaughtRejection ==
    /\ ~last.uncaught
    /\ last.op \in {"FetchReject", "PostReject", "DeleteReject"} => error = last.val

\* C8: a create request is issued only by a submit whose input passed the
\* schema; a submit whose input fails it issues no request and leaves the lead
\* sequence, the loading flag and the modal-open flag as they were, and an
\* empty name gets the field error "Name is required".
C8_ValidationBeforeCreate ==
    [][/\ \A r \in posts' \ posts : last'.op = "SubmitValid" /\ IsValid(r.data)
       /\ (last'.op \in {"SubmitValid", "SubmitInvalid"} /\ ~IsValid(last'.val)) =>
             /\ posts' = posts
             /\ nReq' = nReq
             /\ leads' = leads
             /\ loading' = loading
             /\ open' = open
       /\ (last'.op \in {"SubmitValid", "SubmitInvalid"} /\ last'.val.name = "") =>
             /\ formErrors'.name = "Name is required"
             /\ posts' = posts]_vars

\* C8 witness: a submit with an empty name was refused while the page had
\* leads and requests could still be issued.
C8_Witness ==
    /\ last.op = "SubmitInvalid"
    /\ last.val.name = ""
    /\ formErrors.name = "Name is required"
    /\ posts = {}
    /\ ~loading
    /\ nReq < MaxRequests
    /\ leads # <<>>

\* C9: while a create request is in flight the loading flag is true, so at
\* most one create request is in flight.
C9_LoadingWhileCreating ==
    /\ posts # {} => loading
    /\ Cardinality(posts) <= 1

\* C10, as claimed: whenever the modal-open flag changes, in either direction,
\* the error is unset in the state after the change.
C10_OpenChangeClearsError == [][open' # open => error' = Null]_vars

\* C10, amended: whenever the modal-open flag changes to closed, the error is
\* unset in the state after the change.
C10_CloseClearsError == [][(open /\ ~open') => error' = Null]_vars

\* C10 witness: the modal was closed while an error was set, and it is unset.
C10_Witness == last.op = "CloseModal" /\ last.val # Null /\ ~open /\ error = Null

\* C11: a failed fetch sets the error to the failure's message, leaves the
\* lead sequence as it was and the fetching flag false; a successful fetch
\* replaces the whole lead sequence by the fetched one; the fetching flag is
\* false once the fetch has resolved.
C11_FetchOutcome ==
    [][/\ last'.op = "FetchReject" =>
             /\ error' = last'.val
             /\ leads' = leads
             /\ fetching' = FALSE
       /\ last'.op = "FetchResolve" =>
             /\ leads' = last'.val
             /\ fetching' = FALSE
       /\ ~fetchPending' => ~fetching']_vars

\* C11 witness: the fetch failed after a create had put a record in the list;
\* the record is still there and the failure's message is the error.
C11_Witness ==
    /\ last.op = "FetchReject"
    /\ error = TransportMessage
    /\ leads # <<>>
    /\ ~fetching

\* C12: removeLead with an empty id issues no request and leaves the lead
\* sequence, the error, the loading flag and the live timers as they were.
C12_EmptyIdNoOp ==
    [][last'.op = "removeLeadNoId" =>
         /\ dels' = dels
         /\ nReq' = nReq
         /\ leads' = leads
         /\ error' = error
         /\ loading' = loading
         /\ timers' = timers]_vars

\* The emails of the bounded set that are syntactically valid: a local part,
\* one "@" and a domain of dot-separated segments.
C13_ValidEmails == { <<"a", "@", "x", ".", "c">> }

\* C13: the schema reports valid exactly when the name is non-empty and at
\* most 20 characters long, the email is non-empty and syntactically valid and
\* the status is one of the five enumerated values; otherwise exactly the
\* violating fields get a message: the max-length message for a name longer
\* than 20 (a name of exactly 20 is accepted) and "Invalid status" for a status
\* outside the enumeration.
C13_SchemaRules ==
    last.op = "Resolve" =>
        LET d == last.val
            nameOk == d.name # "" /\ Len(d.name) <= 20
            emailOk == d.email # <<>> /\ d.email \in C13_ValidEmails
            statusOk == d.status \in {"New", "Engaged", "Proposal Sent",
                                      "Closed-Won", "Closed-Lost"}
        IN /\ (formErrors = NoErrors) <=> (nameOk /\ emailOk /\ statusOk)
           /\ (formErrors.name = NoMsg) <=> nameOk
           /\ (formErrors.email = NoMsg) <=> emailOk
           /\ (formErrors.status = NoMsg) <=> statusOk
           /\ Len(d.name) > 20 => formErrors.name = "Name cannot exceed 20 characters"
           /\ Len(d.name) = 20 => formErrors.name = NoMsg
           /\ ~statusOk => formErrors.status = "Invalid status"

\* C13 witness: a name of exactly 20 characters with a valid email and status
\* was resolved without errors.
C13_Witness ==
    /\ last.op = "Resolve"
    /\ Len(last.val.name) = 20
    /\ formErrors = NoErrors

\* C14: a click on the backdrop of the Modal runs the close callback exactly
\* once, and a click inside the content area never runs it, whether the modal
\* is open or closed.
C14_BackdropCloses ==
    [][last'.op = "ModalClick" =>
         /\ last'.val.open = open
         /\ last'.val.target = "backdrop" => (last'.val.calls = 1 /\ open' = FALSE)
         /\ last'.val.target # "backdrop" => (last'.val.calls = 0 /\ open' = open)]_vars

\* C14 witness: a click inside the content area of the open modal, with an
\* error shown in it; the modal is still open and the error still there.
C14_Witness ==
    /\ last.op = "ModalClick"
    /\ last.val.target = "content"
    /\ last.val.calls = 0
    /\ open
    /\ error # Null

\* C15: the firing of the auto-clear timer of a failed delete leaves in place
\* an error message that a failed create has written since.
C15_TimerClearsOwnError ==
    [][last'.op = "TimerFire" => (error \in PostErrors => error' = error)]_vars

\* C16: when the mount fetch resolves, by success or failure, the fetching
\* flag becomes false, and it is false in every state after that; when a
\* create request resolves, by a successful answer, an error answer or a
\* rejection, the loading flag becomes false.
C16_FlagsReleased ==
    [][/\ last'.op \in {"FetchResolve", "FetchReject"} => ~fetching'
       /\ ~fetchPending => ~fetching'
       /\ last'.op \in {"PostSuccess", "PostError", "PostReject"} => ~loading']_vars

\* C16 witness: a create request was rejected and the loading flag is false,
\* after the fetch had failed too.
C16_Witness ==
    /\ last.op = "PostReject"
    /\ ~loading
    /\ ~fetching
    /\ error = TransportMessage

====
